---- MODULE Spec2Model ----
(***************************************************************************)
(* Model of htop-macos (src/src/main.rs): the App state shared between the *)
(* sampler thread and the foreground input/render loop, the view           *)
(* transforms, the selection arithmetic and the modal key handling.        *)
(*                                                                         *)
(* Conventions                                                             *)
(*   Option<T>  : a sequence of length 0 (None) or 1 (Some(x) == <<x>>).   *)
(*   String     : a sequence of one-character strings.                     *)
(*   f32        : an integer (the fixture uses whole numbers only).        *)
(***************************************************************************)
EXTENDS Integers, Sequences, FiniteSets, TLC

----------------------------------------------------------------------------
(* Bounds of the model *)

\* pids the operating system may hand to the sampler are 1..MaxPid
MaxPid == 2
\* longest search query the operator types
MaxQuery == 1
\* the table area of the terminal shows 0..MaxPage rows
MaxPage == 2
\* pids of the snapshots whose parent links are arbitrary are 1..MaxTreePid
MaxTreePid == 3

----------------------------------------------------------------------------
(* Option and small helpers *)

None == << >>
Some(x) == << x >>
IsSome(o) == Len(o) = 1
IsNone(o) == Len(o) = 0
Unwrap(o) == o[1]

Min(a, b) == IF a < b THEN a ELSE b
\* usize::saturating_sub
SaturatingSub(a, b) == IF a > b THEN a - b ELSE 0

----------------------------------------------------------------------------
(* Characters and strings *)

\* the characters that occur in the fixture and on the modelled keyboard
Chars == {"C", "P", "c", "m", "p", "r"}

\* byte value of a character: String::cmp compares bytes
CharCode(c) ==
  CASE c = "C" -> 67
    [] c = "P" -> 80
    [] c = "c" -> 99
    [] c = "m" -> 109
    [] c = "p" -> 112
    [] c = "r" -> 114

\* char::to_lowercase on the characters of the model
LowerChar(c) ==
  CASE c = "C" -> "c"
    [] c = "P" -> "p"
    [] OTHER -> c

\* str::to_lowercase
ToLowercase(s) == [i \in 1..Len(s) |-> LowerChar(s[i])]

\* str::contains(&pat)
Contains(s, pat) ==
  \E i \in 1..(Len(s) - Len(pat) + 1) : SubSeq(s, i, i + Len(pat) - 1) = pat

\* Ord for String: lexicographic on bytes, a proper prefix is smaller.
\* The result is -1 (Less), 0 (Equal) or 1 (Greater).
StrCmp(a, b) ==
  LET n == Min(Len(a), Len(b))
      diff == {i \in 1..n : a[i] # b[i]}
  IN  IF diff = {}
      THEN (IF Len(a) < Len(b) THEN -1 ELSE IF Len(a) > Len(b) THEN 1 ELSE 0)
      ELSE LET k == CHOOSE i \in diff : \A j \in diff : i <= j
           IN  IF CharCode(a[k]) < CharCode(b[k]) THEN -1 ELSE 1

\* Ord for integers (u32, u64) and partial_cmp for the f32 values of the model
NumCmp(a, b) == IF a < b THEN -1 ELSE IF a > b THEN 1 ELSE 0

----------------------------------------------------------------------------
(* Enums *)

SortOrder == {"Asc", "Desc"}
SortBy == {"PID", "User", "CPU", "MEM", "Time", "Command"}
InputMode == {"Normal", "Search", "KillMenu"}

\* App::new: the signal numbers of kill_signals, in menu order
KillSignals == <<1, 2, 9, 15, 20, 24>>

----------------------------------------------------------------------------
(* The process table the operating system presents to the sampler *)

Pids == 1..MaxPid

\* ProcessInfo of pid p as update_data builds it from the OS descriptor.
\* Fixture: a parent chain 1 <- 2 <- 3 ..., CPU usage alternating 1, 0,
\* memory growing with the pid, equal run times (so Time never separates two
\* processes) and commands that differ in case and length.
ProcessInfo(p) ==
  [ pid      |-> p,
    ppid     |-> p - 1,
    user     |-> IF p = 1 THEN <<"r">> ELSE <<"m">>,
    cpu      |-> p % 2,
    mem      |-> p,
    cpu_time |-> 0,
    command  |-> IF p % 3 = 1 THEN <<"C", "p">>
                 ELSE IF p % 3 = 2 THEN <<"c">>
                 ELSE <<"p">> ]

\* the process tables a call of sys.refresh_all can find: the dashboard is
\* itself a process, so the table is never empty
ProcessTables == {S \in SUBSET Pids : S # {}}

----------------------------------------------------------------------------
(* View Transform Engine *)

\* the closure given to procs.sort_by in update_data
Compare(sb, so, a, b) ==
  LET ordering ==
        CASE sb = "PID"     -> NumCmp(a.pid, b.pid)
          [] sb = "User"    -> StrCmp(a.user, b.user)
          [] sb = "CPU"     -> NumCmp(a.cpu, b.cpu)
          [] sb = "MEM"     -> NumCmp(a.mem, b.mem)
          [] sb = "Time"    -> NumCmp(a.cpu_time, b.cpu_time)
          [] sb = "Command" -> StrCmp(a.command, b.command)
  IN  IF so = "Asc" THEN ordering ELSE 0 - ordering

\* a sequence is in the order slice::sort_by leaves it in
IsSorted(procs, sb, so) ==
  \A i, j \in 1..Len(procs) : i < j => Compare(sb, so, procs[i], procs[j]) <= 0

\* update_data, lines 131-158: the records of the table, collected in the
\* arbitrary iteration order of sys.processes() (a HashMap) and then sorted
\* by a stable sort: every sorted arrangement of the records can result.
SortedProcs(table, sb, so) ==
  LET recs == {ProcessInfo(p) : p \in table}
      n == Cardinality(recs)
  IN  {f \in [1..n -> recs] :
         /\ \A i, j \in 1..n : i # j => f[i] # f[j]
         /\ IsSorted(f, sb, so)}

\* a sort_by_key that leaves the greatest pid first
RECURSIVE SortByPidDescending(_)
SortByPidDescending(recs) ==
  IF recs = {} THEN << >>
  ELSE LET m == CHOOSE r \in recs : \A q \in recs : r.pid >= q.pid
       IN  <<m>> \o SortByPidDescending(recs \ {m})

\* Vec<&ProcessInfo> sorted by sort_by_key(|p| p.pid) (pids are unique)
RECURSIVE SortByPid(_)
SortByPid(recs) ==
  IF recs = {} THEN << >>
  ELSE LET m == CHOOSE r \in recs : \A q \in recs : r.pid <= q.pid
       IN  <<m>> \o SortByPid(recs \ {m})

RangeOf(seq) == {seq[i] : i \in 1..Len(seq)}

\* tree_ordered_processes: the test that sends a record to root_procs
IsRoot(procs, proc) ==
  proc.ppid = 0 \/ ~(\E q \in RangeOf(procs) : q.pid = proc.ppid)

\* tree_ordered_processes: pid_map.get(&pid), the non-root records filed
\* under their parent's pid
PidMap(procs, pid) ==
  {q \in RangeOf(procs) : ~IsRoot(procs, q) /\ q.ppid = pid}

\* add_tree_children: proc at depth, then its children in pid order, each
\* followed by its own subtree
RECURSIVE add_tree_children(_, _, _)
RECURSIVE add_tree_children_of(_, _, _)
add_tree_children_of(procs, children, depth) ==
  IF Len(children) = 0 THEN << >>
  ELSE add_tree_children(procs, Head(children), depth)
         \o add_tree_children_of(procs, Tail(children), depth)
add_tree_children(procs, proc, depth) ==
  << <<depth, proc>> >>
    \o add_tree_children_of(procs, SortByPid(PidMap(procs, proc.pid)), depth + 1)

\* a tree_ordered_processes that starts a traversal from every root and
\* again from every record filed under a root
TreeFromRootsAndTheirChildren(procs) ==
  LET roots == {q \in RangeOf(procs) : IsRoot(procs, q)}
      again == UNION {PidMap(procs, r.pid) : r \in roots}
  IN  add_tree_children_of(procs, SortByPid(roots \cup again), 0)

\* tree_ordered_processes: the (depth, record) rows of the tree view
tree_ordered_processes(procs) ==
  add_tree_children_of(procs, SortByPid({q \in RangeOf(procs) : IsRoot(procs, q)}), 0)

\* filtered_processes: the rows of the flat view
filtered_processes(procs, filter) ==
  IF IsSome(filter)
  THEN LET filter_lower == ToLowercase(Unwrap(filter))
           Keep(p) == Contains(ToLowercase(p.command), filter_lower)
       IN  SelectSeq(procs, Keep)
  ELSE procs

\* Vec::get(idx).map(|p| p.pid) on a list of pids
GetPid(pids, idx) ==
  IF idx < Len(pids) THEN Some(pids[idx + 1]) ELSE None


----------------------------------------------------------------------------
(* State *)

VARIABLES
  processes,      \* App.processes: the installed Snapshot
  metrics,        \* App.uptime .. App.swap_usage, the aggregate metrics:
                  \* identified by the process table of the refresh that
                  \* measured them
  selected,       \* App.state.selected(): Option<usize>
  sort_by,        \* App.sort_by
  sort_order,     \* App.sort_order
  message,        \* App.message: Option of "Sent" or "Error"
  input_mode,     \* App.input_mode
  search_query,   \* App.search_query
  active_filter,  \* App.active_filter: Option<String>
  tree_view,      \* App.tree_view
  kill_selected,  \* App.kill_menu_state.selected(): Option<usize>
  running,        \* the bool behind the `running` mutex
  app_lock,       \* holder of the `app` mutex: "free", "sampler" or "main"
  running_lock,   \* holder of the `running` mutex
  sys,            \* the sampler's System: the process table of its last refresh
  s_pc,           \* where the sampler thread is
  f_pc,           \* where the foreground (main) thread is
  kill_req,       \* arguments of the kill_process call in progress
  menu_pid,       \* selected_pid() when the kill menu was opened
  late_installs   \* Snapshots installed since running became false

app == <<processes, metrics, selected, sort_by, sort_order, message,
         input_mode, search_query, active_filter, tree_view, kill_selected>>
ui == <<selected, sort_by, sort_order, message, input_mode, search_query,
        active_filter, tree_view, kill_selected>>
vars == <<processes, metrics, selected, sort_by, sort_order, message,
          input_mode, search_query, active_filter, tree_view, kill_selected,
          running, app_lock, running_lock, sys, s_pc, f_pc, kill_req,
          menu_pid, late_installs>>

\* App::new, and main up to the spawn of the sampler thread
Init ==
  /\ processes = << >>
  /\ metrics = {}
  /\ selected = None
  /\ sort_by = "CPU"
  /\ sort_order = "Desc"
  /\ message = None
  /\ input_mode = "Normal"
  /\ search_query = << >>
  /\ active_filter = None
  /\ tree_view = FALSE
  /\ kill_selected = Some(0)
  /\ running = TRUE
  /\ app_lock = "free"
  /\ running_lock = "free"
  /\ sys = {}
  /\ s_pc = "s_while"
  /\ f_pc = "f_loop"
  /\ kill_req = None
  /\ menu_pid = None
  /\ late_installs = 0

----------------------------------------------------------------------------
(* Selection Controller: App's read-only helpers *)

\* the pids of the rows the table widget is given (main, the TABLE block)
ViewPids ==
  IF tree_view
  THEN LET t == tree_ordered_processes(processes)
       IN  [i \in 1..Len(t) |-> t[i][2].pid]
  ELSE LET f == filtered_processes(processes, active_filter)
       IN  [i \in 1..Len(f) |-> f[i].pid]

\* App::selected_pid
selected_pid ==
  IF IsNone(selected) THEN None ELSE GetPid(ViewPids, Unwrap(selected))

\* App::get_list_length
get_list_length ==
  IF tree_view
  THEN Len(processes)
  ELSE Len(filtered_processes(processes, active_filter))

----------------------------------------------------------------------------
(* Selection Controller: the new value of state.selected *)

\* App::next
next(sel, len) ==
  IF len = 0 THEN sel
  ELSE IF IsSome(sel)
       THEN Some(IF Unwrap(sel) >= len - 1 THEN 0 ELSE Unwrap(sel) + 1)
       ELSE Some(0)

\* App::previous
previous(sel, len) ==
  IF len = 0 THEN sel
  ELSE IF IsSome(sel)
       THEN Some(IF Unwrap(sel) = 0 THEN len - 1 ELSE Unwrap(sel) - 1)
       ELSE Some(len - 1)

\* App::page_down
page_down(sel, len, page_size) ==
  IF len = 0 THEN sel
  ELSE LET i == IF IsSome(sel) THEN Unwrap(sel) ELSE 0
       IN  Some(Min(i + page_size, len - 1))

\* App::page_up
page_up(sel, len, page_size) ==
  IF len = 0 THEN sel
  ELSE LET i == IF IsSome(sel) THEN Unwrap(sel) ELSE 0
       IN  Some(SaturatingSub(i, page_size))

\* App::home
home(sel, len) == IF len > 0 THEN Some(0) ELSE sel

\* App::end
end(sel, len) == IF len > 0 THEN Some(len - 1) ELSE sel

\* a next_kill_signal that stops on the last entry
NextKillSignalNoWrap(sel) ==
  IF IsSome(sel)
  THEN Some(IF Unwrap(sel) >= Len(KillSignals) - 1 THEN Unwrap(sel)
            ELSE Unwrap(sel) + 1)
  ELSE Some(0)

\* App::next_kill_signal
next_kill_signal(sel) ==
  IF IsSome(sel)
  THEN Some(IF Unwrap(sel) >= Len(KillSignals) - 1 THEN 0 ELSE Unwrap(sel) + 1)
  ELSE Some(0)

\* App::previous_kill_signal
previous_kill_signal(sel) ==
  IF IsSome(sel)
  THEN Some(IF Unwrap(sel) = 0 THEN Len(KillSignals) - 1 ELSE Unwrap(sel) - 1)
  ELSE Some(0)

\* a set_sort_by without the toggle: the chosen key, always descending
SetSortByNoToggle(cur_by, cur_order, new_by) == <<new_by, "Desc">>

\* App::set_sort_by: the new (sort_by, sort_order) pair
SetSortBy(cur_by, cur_order, new_by) ==
  IF cur_by = new_by
  THEN <<cur_by, IF cur_order = "Asc" THEN "Desc" ELSE "Asc">>
  ELSE <<new_by, "Desc">>

\* App::set_sort_by
set_sort_by(new_by) ==
  /\ sort_by' = SetSortBy(sort_by, sort_order, new_by)[1]
  /\ sort_order' = SetSortBy(sort_by, sort_order, new_by)[2]
  /\ selected' = Some(0)

----------------------------------------------------------------------------
(* Mutexes *)

\* a lock that never makes its caller wait
CanLockAlways(lock) == TRUE

\* Mutex::lock returns once nobody holds the mutex
CanLock(lock) == lock = "free"

----------------------------------------------------------------------------
(* The sampler thread: main, lines 380-386 *)

\* while *running.lock().unwrap(): take the running mutex
S_LockRunning ==
  /\ s_pc = "s_while"
  /\ CanLock(running_lock)
  /\ running_lock' = "sampler"
  /\ s_pc' = "s_read"
  /\ UNCHANGED <<app, running, app_lock, sys, f_pc, kill_req, menu_pid,
                 late_installs>>

\* a sampler that drops the guard but goes on whatever the flag says
S_ReadRunningIgnored ==
  /\ s_pc = "s_read"
  /\ running_lock' = "free"
  /\ s_pc' = "s_lock"
  /\ UNCHANGED <<app, running, app_lock, sys, f_pc, kill_req, menu_pid,
                 late_installs>>

\* a sampler that keeps the running guard while it goes on to lock app
S_ReadRunningKeepsGuard ==
  /\ s_pc = "s_read"
  /\ s_pc' = IF running THEN "s_lock" ELSE "s_done"
  /\ running_lock' = IF running THEN running_lock ELSE "free"
  /\ UNCHANGED <<app, running, app_lock, sys, f_pc, kill_req, menu_pid,
                 late_installs>>

\* ... read the flag and drop the guard; leave the loop if it is false
S_ReadRunning ==
  /\ s_pc = "s_read"
  /\ running_lock' = "free"
  /\ s_pc' = IF running THEN "s_lock" ELSE "s_done"
  /\ UNCHANGED <<app, running, app_lock, sys, f_pc, kill_req, menu_pid,
                 late_installs>>

\* app.lock().unwrap(): the guard lives until update_data has returned
S_LockApp ==
  /\ s_pc = "s_lock"
  /\ CanLock(app_lock)
  /\ app_lock' = "sampler"
  /\ s_pc' = "s_refresh"
  /\ UNCHANGED <<app, running, running_lock, sys, f_pc, kill_req, menu_pid,
                 late_installs>>

\* where the sampler is while update_data queries the operating system
SamplerInRefresh == s_pc = "s_refresh"

\* update_data, lines 116-128: sys.refresh_all / refresh_cpu / refresh_memory
\* read the operating system, then the aggregate metrics are stored
UpdateMetrics ==
  /\ SamplerInRefresh
  /\ \E table \in ProcessTables : sys' = table
  /\ metrics' = sys'
  /\ s_pc' = "s_procs"
  /\ UNCHANGED <<processes, ui, running, app_lock, running_lock, f_pc,
                 kill_req, menu_pid, late_installs>>

\* an update_data that also puts the cursor back on the first row
UpdateProcsResetsCursor ==
  /\ s_pc = "s_procs"
  /\ \E procs \in SortedProcs(sys, sort_by, sort_order) : processes' = procs
  /\ selected' = Some(0)
  /\ app_lock' = "free"
  /\ late_installs' = IF running THEN late_installs ELSE late_installs + 1
  /\ s_pc' = "s_while"
  /\ UNCHANGED <<metrics, sort_by, sort_order, message, input_mode,
                 search_query, active_filter, tree_view, kill_selected,
                 running, running_lock, sys, f_pc, kill_req, menu_pid>>

\* update_data, lines 130-159: build the records, sort them by the active
\* (sort_by, sort_order), install them. The guard is dropped on return and
\* the thread sleeps for two seconds before it tests the flag again.
UpdateProcs ==
  /\ s_pc = "s_procs"
  /\ \E procs \in SortedProcs(sys, sort_by, sort_order) : processes' = procs
  /\ app_lock' = "free"
  /\ late_installs' = IF running THEN late_installs ELSE late_installs + 1
  /\ s_pc' = "s_while"
  /\ UNCHANGED <<metrics, ui, running, running_lock, sys, f_pc, kill_req,
                 menu_pid>>

Sampler ==
  \/ S_LockRunning
  \/ S_ReadRunning
  \/ S_LockApp
  \/ UpdateMetrics
  \/ UpdateProcs

----------------------------------------------------------------------------
(* The keyboard *)

\* KeyCode::Char(c) events
CharKeys == {"q", "/", "i", "I", "p", "P", "u", "U", "m", "M", "t", "T", "c", "C"}
\* the other KeyCode events
SpecialKeys == {"F5", "F9", "F10", "Down", "Up", "PageDown", "PageUp", "Home",
                "End", "Esc", "Enter", "Backspace", "Tab"}
AllKeys == CharKeys \cup SpecialKeys

\* the characters the operator types into the search bar
QueryChars == {"P"}

\* the key events the operator can produce: any key, except that while the
\* search bar is open the only characters typed are QueryChars, and none once
\* the query is MaxQuery long
Keys(mode, query) ==
  IF mode = "Search"
  THEN SpecialKeys \cup (IF Len(query) < MaxQuery THEN QueryChars ELSE {})
  ELSE AllKeys

\* page_size = table_height, set by the last draw from the terminal's size
PageSizes == 0..MaxPage

\* the sort bindings of Normal mode, lines 502-507
SortKeys == {"i", "I", "p", "P", "u", "U", "m", "M", "t", "T", "c", "C"}
SortKeyTarget(k, cur_by) ==
  CASE k \in {"i", "I"} -> cur_by
    [] k \in {"p", "P"} -> "PID"
    [] k \in {"u", "U"} -> "User"
    [] k \in {"m", "M"} -> "MEM"
    [] k \in {"t", "T"} -> "Time"
    [] k \in {"c", "C"} -> "Command"

\* keys with an arm in `match key.code` of each mode
NormalBound == {"q", "F10", "/", "Down", "Up", "PageDown", "PageUp", "Home",
                "End", "F5", "F9", "Esc"} \cup SortKeys
SearchBound == {"Enter", "Backspace", "Esc"} \cup CharKeys
KillMenuBound == {"Esc", "q", "Down", "Up", "Enter"}

----------------------------------------------------------------------------
(* The foreground thread: main, lines 390-556 *)

\* let mut app_guard = app.lock().unwrap()
F_LockRender ==
  /\ f_pc = "f_loop"
  /\ CanLock(app_lock)
  /\ app_lock' = "main"
  /\ f_pc' = "f_draw"
  /\ UNCHANGED <<app, running, running_lock, sys, s_pc, kill_req, menu_pid,
                 late_installs>>

\* where the foreground is while terminal.draw builds and paints the frame
MainInDraw == f_pc = "f_draw"

\* terminal.draw(...) with app_guard held, then drop(app_guard)
F_Draw ==
  /\ MainInDraw
  /\ app_lock' = "free"
  /\ f_pc' = "f_poll"
  /\ UNCHANGED <<app, running, running_lock, sys, s_pc, kill_req, menu_pid,
                 late_installs>>

\* event::poll timed out, or the event was not a key
F_PollTimeout ==
  /\ f_pc = "f_poll"
  /\ f_pc' = "f_loop"
  /\ UNCHANGED <<app, running, app_lock, running_lock, sys, s_pc, kill_req,
                 menu_pid, late_installs>>

\* a key was read: let mut app = app.lock().unwrap()
F_LockKey ==
  /\ f_pc = "f_poll"
  /\ CanLock(app_lock)
  /\ app_lock' = "main"
  /\ f_pc' = "f_key"
  /\ UNCHANGED <<app, running, running_lock, sys, s_pc, kill_req, menu_pid,
                 late_installs>>

\* the keys of an arm's patterns that the operator can have pressed
Pressed(keys) == keys \cap Keys(input_mode, search_query)

\* the match arm taken: the mode and the key patterns of the arm
Arm(mode, keys) ==
  /\ f_pc = "f_key"
  /\ input_mode = mode
  /\ Pressed(keys) # {}

\* the end of a key handler: the guard is dropped and the loop starts over
HandlerDone ==
  /\ app_lock' = "free"
  /\ f_pc' = "f_loop"
  /\ UNCHANGED <<processes, metrics, running, running_lock, sys, s_pc,
                 kill_req, late_installs>>

(* ---- InputMode::Normal ---- *)

\* 'q' | F10: wait for the running mutex, the app guard still held
KeyQuit ==
  /\ Arm("Normal", {"q", "F10"})
  /\ f_pc' = "f_quit"
  /\ UNCHANGED <<app, running, app_lock, running_lock, sys, s_pc, kill_req,
                 menu_pid, late_installs>>

F_LockRunning ==
  /\ f_pc = "f_quit"
  /\ CanLock(running_lock)
  /\ running_lock' = "main"
  /\ f_pc' = "f_setflag"
  /\ UNCHANGED <<app, running, app_lock, sys, s_pc, kill_req, menu_pid,
                 late_installs>>

\* *running.lock().unwrap() = false; break;  both guards are dropped
F_SetRunning ==
  /\ f_pc = "f_setflag"
  /\ running' = FALSE
  /\ running_lock' = "free"
  /\ app_lock' = "free"
  /\ f_pc' = "f_done"
  /\ UNCHANGED <<app, sys, s_pc, kill_req, menu_pid, late_installs>>

\* lines 558-561: the terminal is restored and main returns; the process
\* exits, which ends the sampler thread wherever it is
F_Exit ==
  /\ f_pc = "f_done"
  /\ f_pc' = "f_exited"
  /\ s_pc' = IF s_pc = "s_done" THEN "s_done" ELSE "s_killed"
  /\ UNCHANGED <<app, running, app_lock, running_lock, sys, kill_req, menu_pid,
                 late_installs>>

\* '/'
KeyOpenSearch ==
  /\ Arm("Normal", {"/"})
  /\ input_mode' = "Search"
  /\ message' = None
  /\ HandlerDone
  /\ UNCHANGED <<selected, sort_by, sort_order, search_query, active_filter,
                 tree_view, kill_selected, menu_pid>>

\* 'I' 'P' 'U' 'M' 'T' 'C' and their lower-case forms
KeySortBy(k) ==
  /\ Arm("Normal", {k})
  /\ set_sort_by(SortKeyTarget(k, sort_by))
  /\ HandlerDone
  /\ UNCHANGED <<message, input_mode, search_query, active_filter, tree_view,
                 kill_selected, menu_pid>>

KeySort == \E k \in Pressed(SortKeys) : KeySortBy(k)

\* the arms that only move the cursor
Navigate(nav_key, new_selected) ==
  /\ Arm("Normal", {nav_key})
  /\ selected' = new_selected
  /\ HandlerDone
  /\ UNCHANGED <<sort_by, sort_order, message, input_mode, search_query,
                 active_filter, tree_view, kill_selected, menu_pid>>

KeyDown == Navigate("Down", next(selected, get_list_length))
KeyUp == Navigate("Up", previous(selected, get_list_length))
KeyPageDown ==
  \E ps \in PageSizes :
    Navigate("PageDown", page_down(selected, get_list_length, ps))
KeyPageUp ==
  \E ps \in PageSizes :
    Navigate("PageUp", page_up(selected, get_list_length, ps))
KeyHome == Navigate("Home", home(selected, get_list_length))
KeyEnd == Navigate("End", end(selected, get_list_length))

\* F5
KeyToggleTree ==
  /\ Arm("Normal", {"F5"})
  /\ tree_view' = ~tree_view
  /\ HandlerDone
  /\ UNCHANGED <<selected, sort_by, sort_order, message, input_mode, search_query,
                 active_filter, kill_selected, menu_pid>>

\* an F9 arm without the selected_pid() test
KeyOpenKillUnchecked ==
  /\ Arm("Normal", {"F9"})
  /\ input_mode' = "KillMenu"
  /\ menu_pid' = selected_pid
  /\ HandlerDone
  /\ UNCHANGED <<selected, sort_by, sort_order, message, search_query,
                 active_filter, tree_view, kill_selected>>

\* F9
KeyOpenKill ==
  /\ Arm("Normal", {"F9"})
  /\ input_mode' = IF IsSome(selected_pid) THEN "KillMenu" ELSE input_mode
  /\ menu_pid' = selected_pid
  /\ HandlerDone
  /\ UNCHANGED <<selected, sort_by, sort_order, message, search_query,
                 active_filter, tree_view, kill_selected>>

\* Esc
KeyEscNormal ==
  /\ Arm("Normal", {"Esc"})
  /\ IF IsSome(active_filter)
     THEN /\ active_filter' = None
          /\ search_query' = << >>
          /\ selected' = Some(0)
     ELSE UNCHANGED <<active_filter, search_query, selected>>
  /\ message' = None
  /\ HandlerDone
  /\ UNCHANGED <<sort_by, sort_order, input_mode, tree_view, kill_selected, menu_pid>>

\* _ => {}
KeyOtherNormal ==
  /\ Arm("Normal", AllKeys \ NormalBound)
  /\ HandlerDone
  /\ UNCHANGED <<ui, menu_pid>>

(* ---- InputMode::Search ---- *)

\* Enter
KeySearchEnter ==
  /\ Arm("Search", {"Enter"})
  /\ input_mode' = "Normal"
  /\ active_filter' = IF Len(search_query) = 0 THEN None ELSE Some(search_query)
  /\ selected' = Some(0)
  /\ HandlerDone
  /\ UNCHANGED <<sort_by, sort_order, message, search_query, tree_view,
                 kill_selected, menu_pid>>

\* Char(c)
KeySearchChar ==
  /\ Arm("Search", CharKeys)
  /\ \E c \in Pressed(CharKeys) : search_query' = Append(search_query, c)
  /\ HandlerDone
  /\ UNCHANGED <<selected, sort_by, sort_order, message, input_mode,
                 active_filter, tree_view, kill_selected, menu_pid>>

\* Backspace: String::pop
KeySearchBackspace ==
  /\ Arm("Search", {"Backspace"})
  /\ search_query' = IF Len(search_query) = 0 THEN search_query
                     ELSE SubSeq(search_query, 1, Len(search_query) - 1)
  /\ HandlerDone
  /\ UNCHANGED <<selected, sort_by, sort_order, message, input_mode,
                 active_filter, tree_view, kill_selected, menu_pid>>

\* an Esc arm of Search that also drops the active filter
KeySearchEscDropsFilter ==
  /\ Arm("Search", {"Esc"})
  /\ input_mode' = "Normal"
  /\ search_query' = << >>
  /\ active_filter' = None
  /\ HandlerDone
  /\ UNCHANGED <<selected, sort_by, sort_order, message, tree_view,
                 kill_selected, menu_pid>>

\* Esc
KeySearchEsc ==
  /\ Arm("Search", {"Esc"})
  /\ input_mode' = "Normal"
  /\ search_query' = << >>
  /\ HandlerDone
  /\ UNCHANGED <<selected, sort_by, sort_order, message, active_filter,
                 tree_view, kill_selected, menu_pid>>

\* _ => {}
KeyOtherSearch ==
  /\ Arm("Search", AllKeys \ SearchBound)
  /\ HandlerDone
  /\ UNCHANGED <<ui, menu_pid>>

(* ---- InputMode::KillMenu ---- *)

\* Esc | 'q'
KeyKillCancel ==
  /\ Arm("KillMenu", {"Esc", "q"})
  /\ input_mode' = "Normal"
  /\ menu_pid' = None
  /\ HandlerDone
  /\ UNCHANGED <<selected, sort_by, sort_order, message, search_query,
                 active_filter, tree_view, kill_selected>>

\* the arms that only move the signal cursor
KillNavigate(nav_key, new_selected) ==
  /\ Arm("KillMenu", {nav_key})
  /\ kill_selected' = new_selected
  /\ HandlerDone
  /\ UNCHANGED <<selected, sort_by, sort_order, message, input_mode,
                 search_query, active_filter, tree_view, menu_pid>>

KeyKillDown == KillNavigate("Down", next_kill_signal(kill_selected))
KeyKillUp == KillNavigate("Up", previous_kill_signal(kill_selected))

\* the `if let (Some(pid), Some(idx))` of the Enter arm: the arguments of
\* kill_process, if it is called
KillArgs(pid, idx) ==
  IF IsSome(pid) /\ IsSome(idx)
  THEN Some([pid |-> Unwrap(pid), signal |-> KillSignals[Unwrap(idx) + 1]])
  ELSE None

\* Enter, up to the call of kill_process (made with the app guard held)
KeyKillEnter ==
  /\ Arm("KillMenu", {"Enter"})
  /\ LET args == KillArgs(selected_pid, kill_selected)
     IN  IF IsSome(args)
         THEN /\ kill_req' = args
              /\ f_pc' = "f_kill"
              /\ UNCHANGED <<app, app_lock, menu_pid>>
         ELSE /\ input_mode' = "Normal"
              /\ menu_pid' = None
              /\ kill_req' = None
              /\ app_lock' = "free"
              /\ f_pc' = "f_loop"
              /\ UNCHANGED <<processes, metrics, selected, sort_by, sort_order,
                             message, search_query, active_filter, tree_view,
                             kill_selected>>
  /\ UNCHANGED <<running, running_lock, sys, s_pc, late_installs>>

\* where the foreground is while the `kill` command runs
MainInKill == f_pc = "f_kill"

\* kill_process returns Ok or Err; the outcome becomes the message and the
\* mode returns to Normal. Of the message text the model keeps which of the
\* two formats it is ("Sent signal {} to PID {}" or "Error killing {}: {}");
\* the pid and signal it names are those of kill_req.
KillReturn ==
  /\ MainInKill
  /\ \E ok \in BOOLEAN : message' = Some(IF ok THEN "Sent" ELSE "Error")
  /\ input_mode' = "Normal"
  /\ kill_req' = None
  /\ menu_pid' = None
  /\ app_lock' = "free"
  /\ f_pc' = "f_loop"
  /\ UNCHANGED <<processes, metrics, selected, sort_by, sort_order,
                 search_query, active_filter, tree_view, kill_selected,
                 running, running_lock, sys, s_pc, late_installs>>

\* a KillMenu in which F5 still toggles the tree
KeyOtherKillTogglesTree ==
  /\ Arm("KillMenu", AllKeys \ KillMenuBound)
  /\ tree_view' = ~tree_view
  /\ HandlerDone
  /\ UNCHANGED <<selected, sort_by, sort_order, message, input_mode,
                 search_query, active_filter, kill_selected, menu_pid>>

\* _ => {}
KeyOtherKill ==
  /\ Arm("KillMenu", AllKeys \ KillMenuBound)
  /\ HandlerDone
  /\ UNCHANGED <<ui, menu_pid>>

\* loop { draw; if poll { match app.input_mode { ... match key.code { ... } } } }
Foreground ==
  \/ F_LockRender
  \/ F_Draw
  \/ F_PollTimeout
  \/ F_LockKey
  \/ KeyQuit
  \/ F_LockRunning
  \/ F_SetRunning
  \/ F_Exit
  \/ KeyOpenSearch
  \/ KeySort
  \/ KeyDown
  \/ KeyUp
  \/ KeyPageDown
  \/ KeyPageUp
  \/ KeyHome
  \/ KeyEnd
  \/ KeyToggleTree
  \/ KeyOpenKill
  \/ KeyEscNormal
  \/ KeyOtherNormal
  \/ KeySearchEnter
  \/ KeySearchChar
  \/ KeySearchBackspace
  \/ KeySearchEsc
  \/ KeyOtherSearch
  \/ KeyKillCancel
  \/ KeyKillDown
  \/ KeyKillUp
  \/ KeyKillEnter
  \/ KillReturn
  \/ KeyOtherKill

Next == Sampler \/ Foreground

Spec == Init /\ [][Next]_vars

----------------------------------------------------------------------------
(* The two threads under an operator who only browses, kills and quits *)

\* the foreground loop with the arms of 'q', F10, Down, F9, Esc and Enter,
\* and the arms that ignore a key
BrowseForeground ==
  \/ F_LockRender
  \/ F_Draw
  \/ F_PollTimeout
  \/ F_LockKey
  \/ KeyQuit
  \/ F_LockRunning
  \/ F_SetRunning
  \/ F_Exit
  \/ KeyDown
  \/ KeyOpenKill
  \/ KeyEscNormal
  \/ KeyOtherNormal
  \/ KeyKillCancel
  \/ KeyKillDown
  \/ KeyKillEnter
  \/ KillReturn
  \/ KeyOtherKill

BrowseNext == Sampler \/ BrowseForeground

\* both threads keep getting processor time: a thread that can take a step
\* eventually takes one
ThreadSpec ==
  Init /\ [][BrowseNext]_vars /\ WF_vars(Sampler) /\ WF_vars(BrowseForeground)

----------------------------------------------------------------------------
(* The two threads when no lock request is passed over for ever *)

\* as ThreadSpec, and a thread that finds the mutex it asks for free again
\* and again gets it in the end: the holder of app is the foreground, which
\* gives it up for each 250 ms poll, or the sampler, which gives it up for
\* each 2 s sleep
LockSpec ==
  /\ Init /\ [][BrowseNext]_vars
  /\ WF_vars(Sampler) /\ WF_vars(BrowseForeground)
  /\ SF_vars(S_LockRunning) /\ SF_vars(S_LockApp)
  /\ SF_vars(F_LockRender) /\ SF_vars(F_LockRunning)

----------------------------------------------------------------------------
(* The tree view over snapshots with arbitrary parent links *)

\* the values of p.parent().unwrap_or(0): 0 for no parent, or any pid, of a
\* process of the table, of the process itself, or of none in the table
ParentPids == 0..MaxTreePid

\* the process tables of this section
TreeTables == {S \in SUBSET (1..MaxTreePid) : S # {}}

\* the lists update_data can install for a table: its records in an order
\* the initial sort allows, each with a parent pid
SnapshotsOf(table) ==
  {[i \in 1..Len(f) |-> [f[i] EXCEPT !.ppid = pp[f[i].pid]]] :
     f \in SortedProcs(table, "CPU", "Desc"), pp \in [table -> ParentPids]}

TreeSnapshots == UNION {SnapshotsOf(table) : table \in TreeTables}

\* App after one refresh, the sampler asleep between two refreshes
TreeInit ==
  /\ processes \in TreeSnapshots
  /\ metrics = {processes[i].pid : i \in 1..Len(processes)}
  /\ sys = metrics
  /\ selected = None
  /\ sort_by = "CPU"
  /\ sort_order = "Desc"
  /\ message = None
  /\ input_mode = "Normal"
  /\ search_query = << >>
  /\ active_filter = None
  /\ tree_view = FALSE
  /\ kill_selected = Some(0)
  /\ running = TRUE
  /\ app_lock = "free"
  /\ running_lock = "free"
  /\ s_pc = "s_while"
  /\ f_pc = "f_loop"
  /\ kill_req = None
  /\ menu_pid = None
  /\ late_installs = 0

\* the foreground loop with the arms that move the cursor, toggle the tree
\* and open and close the kill menu
TreeNext ==
  \/ F_LockRender
  \/ F_Draw
  \/ F_PollTimeout
  \/ F_LockKey
  \/ KeyDown
  \/ KeyUp
  \/ KeyEnd
  \/ KeyToggleTree
  \/ KeyOpenKill
  \/ KeyKillCancel

TreeSpec == TreeInit /\ [][TreeNext]_vars

----------------------------------------------------------------------------
(* Properties *)

\* the pids of the installed Snapshot
SnapshotPids == {processes[i].pid : i \in 1..Len(processes)}

\* the foreground thread holds the app guard and reads or writes App
MainHoldsGuard == f_pc \in {"f_draw", "f_key", "f_kill", "f_quit", "f_setflag"}

\* the foreground loop has been left
MainLeft == f_pc \in {"f_done", "f_exited"}

\* C1: whenever the active view has rows the cursor is set and below the
\* number of rows, and when it has none the cursor is unset.
CursorInvariant ==
  IF Len(ViewPids) > 0
  THEN IsSome(selected) /\ 0 <= Unwrap(selected) /\ Unwrap(selected) < Len(ViewPids)
  ELSE IsNone(selected)

\* C2: in KillMenu mode selected_pid() is always defined, so Enter always
\* issues a signal-delivery request.
KillMenuHasPid == input_mode = "KillMenu" => IsSome(selected_pid)

\* C3: whenever the foreground thread holds the app guard (to draw or to
\* handle a key), the aggregate metrics and the process list come from the
\* same refresh.
NoPartialSnapshot == MainHoldsGuard => metrics = SnapshotPids

\* C3 witness: the foreground draws a sampled Snapshot while the sampler
\* waits for the guard with the next one.
DrawsSampledSnapshot ==
  f_pc = "f_draw" /\ s_pc = "s_lock" /\ SnapshotPids = Pids

\* C4: the app mutex is not held by a thread that is querying the operating
\* system, drawing the frame or running the kill command.
NoLockAcrossIO ==
  /\ SamplerInRefresh => app_lock # "sampler"
  /\ MainInDraw => app_lock # "main"
  /\ MainInKill => app_lock # "main"

\* C5 (as stated): once quit is handled the flag is false and the loop is
\* left for good, at most one Snapshot is installed afterwards, and the
\* sampler thread gets to observe the flag and return: when the process is
\* over the sampler has left its loop through the flag.
ShutdownObserved ==
  /\ ~running <=> MainLeft
  /\ late_installs <= 1
  /\ f_pc = "f_exited" => s_pc = "s_done"

\* C5 (amended): once quit is handled the flag is false, the foreground loop
\* is left and no further key is handled; at most one Snapshot is installed
\* afterwards; and the sampler thread eventually stops, by observing the flag
\* or because the process exits.
ShutdownStops ==
  /\ [](~running <=> MainLeft)
  /\ [][MainLeft => MainLeft' /\ UNCHANGED ui]_vars
  /\ [](late_installs <= 1)
  /\ (~running ~> s_pc \in {"s_done", "s_killed"})

\* C5 witness: the flag is false and the sampler, which had read it as true,
\* has installed one more Snapshot and then left its loop through the flag.
LateInstallThenDone == ~running /\ late_installs = 1 /\ s_pc = "s_done"

\* C6: in the flat view the rows are in the order of the active
\* (sort_by, sort_order) pair.
FlatViewSorted ==
  ~tree_view => IsSorted(filtered_processes(processes, active_filter),
                         sort_by, sort_order)

\* C7: a step that toggles tree_view leaves the cursor at 0.
ToggleResetsCursor == [][tree_view' # tree_view => selected' = Some(0)]_vars

\* the SortBy a sort key stands for ('I' stands for the active one)
ClaimedSortBy(k) ==
  CASE k \in {"i", "I"} -> sort_by
    [] k \in {"p", "P"} -> "PID"
    [] k \in {"u", "U"} -> "User"
    [] k \in {"m", "M"} -> "MEM"
    [] k \in {"t", "T"} -> "Time"
    [] k \in {"c", "C"} -> "Command"

\* C8: a sort key for the active SortBy (or the invert key) flips the
\* direction and keeps the key; a sort key for another SortBy makes it the
\* active one; either way the cursor is 0 afterwards and the pair is one of
\* the SortBy x SortOrder pairs.
SortToggleOnRepeat ==
  [][\A k \in SortKeys :
       KeySortBy(k) =>
         /\ ClaimedSortBy(k) = sort_by =>
              sort_by' = sort_by /\ sort_order' # sort_order
         /\ ClaimedSortBy(k) # sort_by => sort_by' = ClaimedSortBy(k)
         /\ selected' = Some(0)
         /\ sort_by' \in SortBy /\ sort_order' \in SortOrder]_vars

\* C8 witness: PID ascending is reached only by choosing PID and then
\* choosing it again.
SortedPidAscending ==
  sort_by = "PID" /\ sort_order = "Asc" /\ selected = Some(0) /\ f_pc = "f_loop"

\* C9: every step from Normal to KillMenu leaves the signal cursor on the
\* first signal.
KillMenuOpensOnFirst ==
  [][input_mode = "Normal" /\ input_mode' = "KillMenu" =>
       kill_selected' = Some(0)]_vars

\* C10: F9 in Normal mode enters KillMenu iff selected_pid() is defined, and
\* otherwise leaves App as it was.
OpenKillIffSelected ==
  [][KeyOpenKill =>
       /\ input_mode' = "KillMenu" <=> IsSome(selected_pid)
       /\ IsNone(selected_pid) => UNCHANGED app]_vars

\* C10 witness: the kill menu is open on the process that was selected, and
\* no refresh has moved the selection since.
KillMenuOpenOnSelected ==
  input_mode = "KillMenu" /\ IsSome(menu_pid) /\ menu_pid = selected_pid

\* the rows (depth, record) of the tree view of the installed Snapshot
TreeRows == tree_ordered_processes(processes)

\* the row a row of the tree hangs under: the nearest row above it that is
\* less deep, or 0 if there is none
ParentRow(t, j) ==
  LET above == {i \in 1..(j - 1) : t[i][1] < t[j][1]}
  IN  IF above = {} THEN 0 ELSE CHOOSE i \in above : \A k \in above : k <= i

\* C11: the tree view is a pre-order traversal: a record is a row of depth 0
\* iff its parent pid is 0 or the pid of no record; every deeper row hangs
\* directly under the row of its parent, one level below it; under every row
\* hang all the records that name it as parent; and rows hanging under the
\* same row (the roots among them) are in ascending pid order.
TreePreOrder ==
  LET t == TreeRows
      IsRootRecord(r) == r.ppid = 0 \/ r.ppid \notin SnapshotPids
  IN  /\ \A k \in 1..Len(processes) :
           IsRootRecord(processes[k]) <=>
             \E j \in 1..Len(t) : t[j] = <<0, processes[k]>>
      /\ \A j \in 1..Len(t) :
           /\ t[j][2] \in RangeOf(processes)
           /\ t[j][1] = 0 => IsRootRecord(t[j][2])
           /\ t[j][1] > 0 =>
                /\ ParentRow(t, j) > 0
                /\ t[ParentRow(t, j)][1] = t[j][1] - 1
                /\ t[ParentRow(t, j)][2].pid = t[j][2].ppid
      /\ \A i \in 1..Len(t), k \in 1..Len(processes) :
           processes[k].ppid = t[i][2].pid =>
             \E j \in 1..Len(t) : t[j][2] = processes[k] /\ ParentRow(t, j) = i
      /\ \A i, j \in 1..Len(t) :
           i < j /\ t[i][1] = t[j][1] /\ ParentRow(t, i) = ParentRow(t, j) =>
             t[i][2].pid < t[j][2].pid

\* C11 witness: the tree view is being drawn and has two rows of depth 1
\* under a root whose pid is greater than theirs.
TreeDrawnWithChildren ==
  /\ tree_view
  /\ f_pc = "f_draw"
  /\ \E i, j \in 1..Len(TreeRows) :
       /\ i < j
       /\ TreeRows[i][1] = 1 /\ TreeRows[i][2].pid < TreeRows[i][2].ppid
       /\ TreeRows[j][1] = 1 /\ TreeRows[j][2].ppid = TreeRows[i][2].ppid

\* C12: in tree mode the tree view has each record of the Snapshot exactly
\* once, so it is as long as get_list_length says.
TreeShowsAll ==
  tree_view =>
    /\ Len(TreeRows) = get_list_length
    /\ \A k \in 1..Len(processes) :
         Cardinality({j \in 1..Len(TreeRows) : TreeRows[j][2] = processes[k]}) = 1

\* C13: Enter in Search sets the filter to the query (to None if the query
\* is empty), returns to Normal and sets the cursor to 0; Esc in Search
\* returns to Normal with the filter and the cursor unchanged; and no step
\* that opens the search bar or happens while it is open changes the filter
\* or the cursor, so after Esc both are as they were before it was opened.
SearchExits ==
  [][/\ KeySearchEnter =>
          /\ input_mode' = "Normal"
          /\ active_filter' = (IF search_query = << >> THEN None
                               ELSE Some(search_query))
          /\ selected' = Some(0)
     /\ KeySearchEsc =>
          input_mode' = "Normal" /\ UNCHANGED <<active_filter, selected>>
     /\ input_mode' = "Search" => UNCHANGED <<active_filter, selected>>
     /\ input_mode = "Search" /\ input_mode' # "Search" =>
          KeySearchEnter \/ KeySearchEsc]_vars

\* C13 witness: back in Normal after a cancelled search, an earlier filter
\* still active (an active filter with an empty query is left only by Esc
\* in Search).
SearchCancelledKeepsFilter ==
  /\ input_mode = "Normal"
  /\ f_pc = "f_loop"
  /\ IsSome(active_filter)
  /\ search_query = << >>

\* the key arms of each mode that the source binds to something
NormalArm ==
  \/ KeyQuit \/ KeyOpenSearch \/ KeySort \/ KeyDown \/ KeyUp \/ KeyPageDown
  \/ KeyPageUp \/ KeyHome \/ KeyEnd \/ KeyToggleTree \/ KeyOpenKill
  \/ KeyEscNormal
SearchArm ==
  KeySearchEnter \/ KeySearchChar \/ KeySearchBackspace \/ KeySearchEsc
KillMenuArm == KeyKillCancel \/ KeyKillDown \/ KeyKillUp \/ KeyKillEnter

\* C14: before and after every step input_mode is one of the three modes;
\* a step never goes from Search to KillMenu or from KillMenu to Search; and
\* a step that handles a key outside the arms of the current mode leaves
\* mode, cursor, sort, filter, view mode and signal cursor as they were.
ModeTransitions ==
  [][/\ input_mode \in InputMode /\ input_mode' \in InputMode
     /\ input_mode' # input_mode =>
          <<input_mode, input_mode'>> \in
            {<<"Normal", "Search">>, <<"Normal", "KillMenu">>,
             <<"Search", "Normal">>, <<"KillMenu", "Normal">>}
     /\ f_pc = "f_key" /\ f_pc' = "f_loop"
          /\ ~(NormalArm \/ SearchArm \/ KillMenuArm) =>
          UNCHANGED <<input_mode, selected, sort_by, sort_order,
                      active_filter, tree_view, kill_selected>>]_vars

\* C14 witness: a key is being handled in KillMenu with the tree view on
\* and the signal cursor moved, where F5 and the sort keys have no arm.
KeyInKillMenu ==
  /\ input_mode = "KillMenu"
  /\ f_pc = "f_key"
  /\ tree_view
  /\ kill_selected = Some(1)

\* C15: a step of update_data, and any step that changes the Snapshot or
\* the aggregate metrics, leaves cursor, input mode, sort key and direction,
\* view mode, filter, query, signal cursor and message as they were.
RefreshFrame ==
  [][UpdateMetrics \/ UpdateProcs
       \/ processes' # processes \/ metrics' # metrics => UNCHANGED ui]_vars

\* C15 witness: a refresh has shrunk the list under a cursor that stayed
\* where it was, beyond the last row.
RefreshLeftCursorStale ==
  /\ s_pc = "s_while"
  /\ Len(processes) > 0
  /\ IsSome(selected)
  /\ Unwrap(selected) >= Len(ViewPids)

\* C16: after next, previous, page_down, page_up, home or end run on a view
\* of length > 0 the cursor is set and below that length, whatever the
\* cursor was before.
NavigationClamps ==
  [][(KeyDown \/ KeyUp \/ KeyPageDown \/ KeyPageUp \/ KeyHome \/ KeyEnd)
       /\ get_list_length > 0 =>
       IsSome(selected') /\ Unwrap(selected') < get_list_length]_vars

\* next applied n times
RECURSIVE NextTimes(_, _, _)
NextTimes(sel, len, n) ==
  IF n = 0 THEN sel ELSE NextTimes(next(sel, len), len, n - 1)

\* C17: on a view of length >= 1, next applied length times gives back the
\* cursor it started from, next from the last index gives 0, previous from
\* 0 gives the last index, and previous undoes next and next undoes
\* previous.
WrapLaw ==
  LET len == get_list_length
  IN  len >= 1 =>
        /\ NextTimes(selected, len, len) = selected
        /\ selected = Some(len - 1) => next(selected, len) = Some(0)
        /\ selected = Some(0) => previous(selected, len) = Some(len - 1)
        /\ previous(next(selected, len), len) = selected
        /\ next(previous(selected, len), len) = selected

\* C18: Esc in Normal with a filter active clears the filter, sets the
\* cursor to 0 and keeps the message; with no filter active it clears the
\* message and keeps the cursor; either way mode, sort and view mode are
\* as they were.
EscNormalFrame ==
  [][KeyEscNormal =>
       /\ IsSome(active_filter) =>
            active_filter' = None /\ selected' = Some(0) /\ message' = message
       /\ IsNone(active_filter) =>
            message' = None /\ UNCHANGED <<active_filter, selected>>
       /\ UNCHANGED <<input_mode, sort_by, sort_order, tree_view>>]_vars

\* an index into the six signals
IsKillIndex(sel) ==
  /\ Len(KillSignals) = 6
  /\ IsSome(sel)
  /\ Unwrap(sel) \in 0..(Len(KillSignals) - 1)

\* C19: before and after every step the signal cursor is an index into the
\* six signals; Down in KillMenu moves it one down and from the last entry
\* to the first, Up one up and from the first to the last; neither changes
\* the process cursor, nor the list, view mode and filter that selected_pid
\* reads with it, so the selected pid stays the same.
KillCursorWraps ==
  [][/\ IsKillIndex(kill_selected) /\ IsKillIndex(kill_selected')
     /\ KeyKillDown =>
          /\ kill_selected' = Some((Unwrap(kill_selected) + 1) % 6)
          /\ UNCHANGED <<selected, processes, tree_view, active_filter>>
     /\ KeyKillUp =>
          /\ kill_selected' = Some((Unwrap(kill_selected) + 5) % 6)
          /\ UNCHANGED <<selected, processes, tree_view, active_filter>>]_vars

\* C19 witness: the kill menu is open with the signal cursor on the last
\* entry, on a process other than the first row.
KillCursorOnLast ==
  /\ input_mode = "KillMenu"
  /\ kill_selected = Some(5)
  /\ selected = Some(1)
  /\ IsSome(selected_pid)

\* C20: Enter in KillMenu issues one kill_process call, for the selected pid
\* with the signal number under the signal cursor; when the call returns,
\* with either outcome, the message is set, the mode is Normal and no call
\* is pending; and neither step changes cursor, sort, filter, view mode or
\* Snapshot.
KillConfirm ==
  /\ [][KeyKillEnter =>
          /\ IsSome(kill_req')
          /\ Unwrap(kill_req').pid = Unwrap(selected_pid)
          /\ Unwrap(kill_req').signal = KillSignals[Unwrap(kill_selected) + 1]]_vars
  /\ [][KillReturn =>
          IsSome(message') /\ input_mode' = "Normal" /\ IsNone(kill_req')]_vars
  /\ [][KeyKillEnter \/ KillReturn =>
          UNCHANGED <<selected, sort_by, sort_order, active_filter, tree_view,
                      processes, metrics>>]_vars

\* C21: the pid of the kill_process call that Enter makes in KillMenu is
\* the pid that selected_pid() gave when F9 opened the menu.
KillTargetStable ==
  [][KeyKillEnter /\ IsSome(kill_req') =>
       Some(Unwrap(kill_req').pid) = menu_pid]_vars

\* the foreground is blocked in lock() on a mutex the sampler holds
MainWaits ==
  \/ f_pc = "f_loop" /\ app_lock = "sampler"
  \/ f_pc = "f_quit" /\ running_lock = "sampler"

\* the sampler is blocked in lock() on a mutex the foreground holds
SamplerWaits ==
  \/ s_pc = "s_while" /\ running_lock = "main"
  \/ s_pc = "s_lock" /\ app_lock = "main"

OnParentCycle(r) ==
  LET ParentOf(q) == {p \in RangeOf(processes) : p.pid = q.ppid}
      Up[n \in 0..Len(processes)] ==
        IF n = 0 THEN {r}
        ELSE UNION {ParentOf(q) : q \in Up[n - 1]}
  IN  \E n \in 1..Len(processes) : r \in Up[n]

\* C23: for every Snapshot (pids unique, parent links arbitrary: cycles and
\* self-parents among them) tree_ordered_processes returns a finite list in
\* which no record is twice: it has at most one row per record, no row is
\* deeper than the number of records allows, and no record on a parent cycle
\* is ever entered.
TreeTerminatesNoRepeat ==
  /\ Len(TreeRows) <= Len(processes)
  /\ \A j \in 1..Len(TreeRows) :
       /\ TreeRows[j][1] < Len(processes)
       /\ ~OnParentCycle(TreeRows[j][2])
  /\ \A i, j \in 1..Len(TreeRows) : TreeRows[i][2] = TreeRows[j][2] => i = j

\* C23 witness: the tree view is being drawn for a Snapshot with a record
\* that names itself as parent, a child of that record, and a root.
TreeDrawnWithParentCycle ==
  /\ tree_view
  /\ f_pc = "f_draw"
  /\ Len(TreeRows) > 0
  /\ \E a, b \in RangeOf(processes) :
       a.ppid = a.pid /\ b.ppid = a.pid /\ b # a

====
